---- MODULE Spec2Model ----
(***************************************************************************)
(* State-machine model of the OpenAI-compatible proxy plugin               *)
(* (.opencode/plugin/openai-server.ts): the authentication middleware, the *)
(* /health, /openapi.json, /v1/models and /v1/chat/completions handlers,   *)
(* the per-request deadline timer and the SSE stream written by the        *)
(* streaming path.  Every await of the handlers is an action boundary.     *)
(*                                                                         *)
(* JavaScript strings are sequences of one-character strings, so that      *)
(* split(" "), includes("timeout") and join("") are computed, not assumed. *)
(* A JavaScript value that may be undefined is a record [k, s].            *)
(***************************************************************************)
EXTENDS Integers, Sequences, FiniteSets, TLC

\* ------------------------------------------------------------ bounds

\* number of requests in flight together in SpecConc
NumReqs == 2
\* most messages of a request body in SpecNorm
MaxMsgs == 3
\* most chunks the backend yields in one chunk sequence
MaxChunks == 2
\* most parts the backend yields in one chunk sequence, all chunks together
MaxStreamParts == 2
\* most parts in a one-shot reply
MaxReplyParts == 2

\* ------------------------------------------------------------ strings

Undef == [k |-> "undef", s |-> <<>>]
Str(s) == [k |-> "str", s |-> s]

\* !v of a string-or-undefined value
Falsy(v) == v.k = "undef" \/ v.s = <<>>

BEARER == <<"B", "e", "a", "r", "e", "r">>
TIMEOUT == <<"t", "i", "m", "e", "o", "u", "t">>
UNKNOWN_ERROR == <<"U", "n", "k", "n", "o", "w", "n", " ", "e", "r", "r", "o", "r",
                   " ", "o", "c", "c", "u", "r", "r", "e", "d">>
INVALID_REQUEST == <<"I", "n", "v", "a", "l", "i", "d", " ", "r", "e", "q", "u", "e", "s", "t">>
UNAUTHORIZED == <<"U", "n", "a", "u", "t", "h", "o", "r", "i", "z", "e", "d">>
PROVIDER_TIMEOUT == <<"p", "r", "o", "v", "i", "d", "e", "r", " ", "t", "i", "m", "e", "o", "u", "t">>
LIST_FAILED == <<"F", "a", "i", "l", "e", "d", " ", "t", "o", " ", "l", "i", "s", "t", " ",
                 "m", "o", "d", "e", "l", "s">>

\* String.prototype.includes
Includes(s, sub) ==
  \E i \in 1..(Len(s) - Len(sub) + 1) : SubSeq(s, i, i + Len(sub) - 1) = sub

\* String.prototype.split(" ")
RECURSIVE Split(_)
Split(s) ==
  IF \A i \in 1..Len(s) : s[i] # " "
    THEN <<s>>
    ELSE LET i == CHOOSE j \in 1..Len(s) : s[j] = " " /\ \A h \in 1..(j - 1) : s[h] # " "
         IN  <<SubSeq(s, 1, i - 1)>> \o Split(SubSeq(s, i + 1, Len(s)))

\* Array.prototype.join("") of a sequence of strings
RECURSIVE Join(_)
Join(ss) == IF ss = <<>> THEN <<>> ELSE Head(ss) \o Join(Tail(ss))

\* flattening of a sequence of sequences
RECURSIVE Flatten(_)
Flatten(xss) == IF xss = <<>> THEN <<>> ELSE Head(xss) \o Flatten(Tail(xss))

\* all sequences over S of length at most n
SeqsUpTo(S, n) == UNION {[1..k -> S] : k \in 0..n}

\* ------------------------------------------------------------ pure functions

\* validateApiKey(authHeader, apiKey); apiKey undefined or "" is "no key"
ValidateApiKey(authHeader, key) ==
  IF Falsy(key) THEN TRUE
  ELSE IF Falsy(authHeader) THEN FALSE
  ELSE LET parts == Split(authHeader.s)
       IN  IF Len(parts) # 2 \/ parts[1] # BEARER THEN FALSE
           ELSE parts[2] = key.s

\* createErrorResponse(statusCode, message, type): the status code is not
\* part of the envelope, it is the second argument of c.json
CreateErrorResponse(statusCode, message, type) ==
  [error |-> [message |-> message, type |-> type, param |-> "null", code |-> "null"]]

\* a message part {type, text}; text may be undefined
Part(type, text) == [type |-> type, text |-> text]

\* one message of fromOaRequest's loop: the messages it pushes (none or one)
NormParts(content) ==
  LET Keep(p) == p.k = "obj" /\ p.type # ""
                 /\ ((p.type = "text" /\ p.text.k = "str") \/ p.type = "image_url")
      Out(p) == IF p.type = "text" THEN [k |-> "obj", type |-> "text", text |-> p.text]
                ELSE [k |-> "obj", type |-> "image_url", text |-> Undef]
      kept == SelectSeq(content.parts, Keep)
  IN  [i \in 1..Len(kept) |-> Out(kept[i])]

NormMessage(m) ==
  IF m.k # "obj" \/ m.role = "" THEN <<>>
  ELSE IF m.role = "system" THEN
    IF m.content.k = "str" /\ Len(m.content.s) > 0
      THEN <<[k |-> "obj", role |-> "system", content |-> m.content]>>
      ELSE <<>>
  ELSE IF m.role = "user" THEN
    IF m.content.k = "str"
      THEN <<[k |-> "obj", role |-> "user", content |-> m.content]>>
    ELSE IF m.content.k = "arr" THEN
      LET parts == NormParts(m.content)
      IN  IF Len(parts) = 1 /\ parts[1].type = "text"
            THEN <<[k |-> "obj", role |-> "user",
                    content |-> [k |-> "str", s |-> parts[1].text.s, parts |-> <<>>]]>>
          ELSE IF Len(parts) > 0
            THEN <<[k |-> "obj", role |-> "user",
                    content |-> [k |-> "arr", s |-> <<>>, parts |-> parts]]>>
          ELSE <<>>
    ELSE <<>>
  ELSE IF m.role = "assistant" THEN
    <<[k |-> "obj", role |-> "assistant",
       content |-> IF m.content.k = "str" THEN m.content
                   ELSE [k |-> "undef", s |-> <<>>, parts |-> <<>>]]>>
  ELSE IF m.role = "tool" THEN
    <<[k |-> "obj", role |-> "tool", content |-> m.content]>>
  ELSE <<>>

\* !!body.stream for the values a JSON field can take
Truthy(v) == v \in {"true", "one", "text"}

\* FromOaRequest putting the system messages in front of the others
FromOaRequest_SystemFirst(body) ==
  IF body.k # "obj" THEN body
  ELSE LET out == Flatten([i \in 1..Len(body.messages) |-> NormMessage(body.messages[i])])
           IsSystem(m) == m.role = "system"
           NotSystem(m) == m.role # "system"
       IN  [k |-> "obj",
            messages |-> SelectSeq(out, IsSystem) \o SelectSeq(out, NotSystem),
            stream |-> IF Truthy(body.stream) THEN "true" ELSE "false"]

\* fromOaRequest(body): a body that is not an object is returned unchanged
FromOaRequest(body) ==
  IF body.k # "obj" THEN body
  ELSE [k |-> "obj",
        messages |-> Flatten([i \in 1..Len(body.messages) |-> NormMessage(body.messages[i])]),
        stream |-> IF Truthy(body.stream) THEN "true" ELSE "false"]

\* ReplyText without the filter on the part type
ReplyText_AllParts(parts) ==
  Join([i \in 1..Len(parts) |-> IF parts[i].text.k = "undef" THEN <<>> ELSE parts[i].text.s])

\* the text of a one-shot reply: parts.filter(type = text).map(text ?? "").join("")
ReplyText(parts) ==
  LET IsText(p) == p.type = "text"
      texts == SelectSeq(parts, IsText)
  IN  Join([i \in 1..Len(texts) |-> IF texts[i].text.k = "undef" THEN <<>> ELSE texts[i].text.s])

\* toOaResponse(resp) for a reply object
ToOaResponse(resp) ==
  [object |-> "chat.completion",
   choices |-> <<[index |-> 0,
                  message |-> [role |-> "assistant", content |-> ReplyText(resp.parts)],
                  finish_reason |-> "stop"]>>]

\* toOaStreamChunk(partial, model)
ToOaStreamChunk(partial) ==
  [object |-> "chat.completion.chunk",
   choices |-> <<[index |-> 0, delta |-> [content |-> partial], finish_reason |-> "null"]>>]

\* StreamMessageParts passing over the array contents
StreamMessageParts_StringOnly(p) ==
  IF p.k # "obj" THEN <<>>
  ELSE LET OfMsg(m) ==
             IF m.role # "user" THEN <<>>
             ELSE IF m.content.k = "str" THEN <<Part("text", Str(m.content.s))>>
             ELSE <<>>
       IN  Flatten([i \in 1..Len(p.messages) |-> OfMsg(p.messages[i])])

\* parsed.messages projected to backend parts: the loop of the streaming
\* callback
StreamMessageParts(p) ==
  IF p.k # "obj" THEN <<>>
  ELSE LET OfMsg(m) ==
             IF m.role # "user" THEN <<>>
             ELSE IF m.content.k = "str" THEN <<Part("text", Str(m.content.s))>>
             ELSE IF m.content.k = "arr" THEN
               LET IsText(q) == q.type = "text"
                   ts == SelectSeq(m.content.parts, IsText)
               IN  [i \in 1..Len(ts) |-> Part("text", ts[i].text)]
             ELSE <<>>
       IN  Flatten([i \in 1..Len(p.messages) |-> OfMsg(p.messages[i])])

\* parsed.messages projected to backend parts: the loop of the non-streaming
\* branch
MessageParts(p) ==
  IF p.k # "obj" THEN <<>>
  ELSE LET OfMsg(m) ==
             IF m.role # "user" THEN <<>>
             ELSE IF m.content.k = "str" THEN <<Part("text", Str(m.content.s))>>
             ELSE IF m.content.k = "arr" THEN
               LET IsText(q) == q.type = "text"
                   ts == SelectSeq(m.content.parts, IsText)
               IN  [i \in 1..Len(ts) |-> Part("text", ts[i].text)]
             ELSE <<>>
       IN  Flatten([i \in 1..Len(p.messages) |-> OfMsg(p.messages[i])])

\* the classification of a thrown value by its message
ErrorMessage(e, dflt) == IF e.isError THEN e.message ELSE dflt
ErrorStatus(errorMsg) == IF Includes(errorMsg, TIMEOUT) THEN 504 ELSE 500
ErrorType(errorMsg) == IF Includes(errorMsg, TIMEOUT) THEN "provider_error" ELSE "server_error"

\* ------------------------------------------------------------ inputs

K == <<"k">>
K_SP_K == <<"k", " ", "k">>
SP == <<" ">>

\* the --api-key option of the server-openai command: not given, or any string
ApiKeys == {Undef, Str(K), Str(K_SP_K)}

\* process.env.OPENAI_PROXY_API_KEY before the command runs: unset, or set
EnvKeys == {Undef, Str(K)}

\* the command's handler: the option, when given, is put in the environment,
\* from which the plugin reads its key; nothing is generated
CliEnvKey(option, env) == IF ~Falsy(option) THEN option ELSE env

\* the Authorization header of a request: absent, or any string
AuthHeaders ==
  {Undef, Str(BEARER \o SP \o K), Str(BEARER \o SP \o K_SP_K)}

Paths == {"/openapi.json", "/health", "/v1/models", "/v1/chat/completions"}

StrContent(s) == [k |-> "str", s |-> s, parts |-> <<>>]
ArrContent(ps) == [k |-> "arr", s |-> <<>>, parts |-> ps]
InPart(type, text) == [k |-> "obj", type |-> type, text |-> text]
Message(role, content) == [k |-> "obj", role |-> role, content |-> content]

\* request bodies: text that is not JSON, the JSON values null and a string,
\* and objects with a messages array and a stream field
Bodies ==
  {[k |-> "invalid"], [k |-> "null"], [k |-> "prim"],
   [k |-> "obj", messages |-> <<>>, stream |-> "undef"],
   [k |-> "obj", messages |-> <<Message("user", StrContent(<<"h", "i">>))>>, stream |-> "true"],
   [k |-> "obj",
    messages |-> <<Message("system", StrContent(<<>>)),
                   Message("user", ArrContent(<<InPart("text", Str(<<"a">>)),
                                                InPart("image_url", Undef),
                                                InPart("text", Str(<<"b">>))>>)),
                   Message("assistant", StrContent(<<"c">>))>>,
    stream |-> "false"],
   [k |-> "obj",
    messages |-> <<Message("user", ArrContent(<<InPart("text", Str(<<"a">>))>>)),
                   Message("tool", StrContent(<<"t">>))>>,
    stream |-> "one"]}

\* values thrown by the backend: an Error with a message, or something else
Err(m) == [isError |-> TRUE, message |-> m]
NonError == [isError |-> FALSE, message |-> <<>>]
BackendErrors ==
  {Err(<<"b", "o", "o", "m">>), Err(<<"a", " ">> \o TIMEOUT \o <<"s">>),
   Err(<<"t", "i", "m", "e", "d", " ", "o", "u", "t">>), NonError}

\* the value thrown by a failing stream.write
WriteError == Err(<<"c", "l", "o", "s", "e", "d">>)

\* parts of backend output: chunks and one-shot replies
OutParts ==
  {Part("text", Str(<<"a">>)), Part("text", Str(<<"b">>)), Part("text", Str(<<>>)),
   Part("text", Undef), Part("tool", Str(<<"a">>))}

\* a chunk of a chunk sequence; a chunk may have no parts field
Chunk(ps) == [hasParts |-> TRUE, parts |-> ps]
NoPartsChunk == [hasParts |-> FALSE, parts |-> <<>>]

RECURSIVE TotalParts(_)
TotalParts(cs) == IF cs = <<>> THEN 0 ELSE Len(Head(cs).parts) + TotalParts(Tail(cs))

\* the provider listings of provider.list()
Listings ==
  {<<>>,
   <<[id |-> "opencode", models |-> <<"default", "gpt-4">>]>>,
   <<[id |-> "p1", models |-> <<"m">>], [id |-> "p2", models |-> <<>>]>>}

\* ------------------------------------------------------------ state

VARIABLES
  startup,       \* how the server was started: the option and the environment
  apiKey,        \* the configured key
  reqs,          \* the requests of this run
  pc,            \* pc[r]: where request r's handling stands
  request,       \* request[r]: path, Authorization header and body
  response,      \* response[r]: the HTTP response: status, kind and body
  parsed,        \* parsed[r]: fromOaRequest(body)
  session,       \* session[r]: the session id its create call returned, 0 if none
  timer,         \* timer[r]: the deadline timer: none, armed, fired, cleared
  aborted,       \* aborted[r]: abortController.signal.aborted
  msg,           \* msg[r]: what client.session.message returned
  arrived,       \* arrived[r]: the chunks the chunk sequence has yielded
  pending,       \* pending[r]: the texts of the chunk in hand still to be written
  frames,        \* frames[r]: the frames written to the stream
  err,           \* err[r]: the value caught by a catch clause
  raw,           \* raw[r]: a failure left the handler uncaught
  sessions,      \* backend: sessions[i] is the request that created session i
  messageCalls,  \* backend: the message calls received
  listCalls,     \* backend: the provider.list calls received
  createCalls,   \* backend: createCalls[r]: the session.create calls of request r
  providers      \* providers[r]: what client.provider.list returned

vars == <<startup, apiKey, reqs, pc, request, response, parsed, session, timer, aborted,
          msg, arrived, pending, frames, err, raw, sessions, messageCalls, listCalls,
          createCalls, providers>>

cfgVars == <<startup, apiKey, reqs>>
reqVars == <<request, parsed, providers>>
backendVars == <<sessions, messageCalls, listCalls, createCalls>>
streamVars == <<arrived, pending, frames>>

NoRequest == [path |-> "", auth |-> Undef, body |-> [k |-> "none"]]
NoResponse == [status |-> 0, kind |-> "none", body |-> [k |-> "none"]]
NoMsg == [kind |-> "none", parts |-> <<>>]
NoErr == [k |-> "none", at |-> "", isError |-> FALSE, message |-> <<>>]
Thrown(e, at) == [k |-> "thrown", at |-> at, isError |-> e.isError, message |-> e.message]

DoneFrame == [kind |-> "done"]
ChunkFrame(text) == [kind |-> "chunk", data |-> ToOaStreamChunk(text)]
ErrorFrame(data) == [kind |-> "error", data |-> data]

\* c.json(body, status)
Json(status, body) == [status |-> status, kind |-> "json", body |-> body]

\* clearTimeout(timeoutId): a timer that has fired stays fired
ClearTimeout(t) == IF t = "armed" THEN "cleared" ELSE t

InitWith(rs) ==
  /\ startup \in [option : ApiKeys, env : EnvKeys]
  /\ apiKey = CliEnvKey(startup.option, startup.env)
  /\ reqs = rs
  /\ pc = [r \in rs |-> "idle"]
  /\ request = [r \in rs |-> NoRequest]
  /\ response = [r \in rs |-> NoResponse]
  /\ parsed = [r \in rs |-> [k |-> "none"]]
  /\ session = [r \in rs |-> 0]
  /\ timer = [r \in rs |-> "none"]
  /\ aborted = [r \in rs |-> FALSE]
  /\ msg = [r \in rs |-> NoMsg]
  /\ arrived = [r \in rs |-> <<>>]
  /\ pending = [r \in rs |-> <<>>]
  /\ frames = [r \in rs |-> <<>>]
  /\ err = [r \in rs |-> NoErr]
  /\ raw = [r \in rs |-> FALSE]
  /\ sessions = <<>>
  /\ messageCalls = <<>>
  /\ listCalls = 0
  /\ createCalls = [r \in rs |-> 0]
  /\ providers = [r \in rs |-> <<>>]

Init == InitWith({1})

\* ------------------------------------------------------------ arrival

\* the middleware: /openapi.json is let through unchecked
AuthGate(path, authHeader, key) ==
  IF path = "/openapi.json" THEN TRUE ELSE ValidateApiKey(authHeader, key)

Finish(r, resp) ==
  /\ response' = [response EXCEPT ![r] = resp]
  /\ pc' = [pc EXCEPT ![r] = "done"]

\* Arrive with the provider listing requested ahead of the middleware
Arrive_ListsBeforeGate(r) ==
  /\ pc[r] = "idle"
  /\ \E path \in Paths, auth \in AuthHeaders, body \in Bodies :
       /\ path # "/v1/chat/completions" => body = [k |-> "null"]
       /\ request' = [request EXCEPT ![r] = [path |-> path, auth |-> auth, body |-> body]]
       /\ listCalls' = IF path = "/v1/models" THEN listCalls + 1 ELSE listCalls
       /\ IF ~AuthGate(path, auth, apiKey)
            THEN Finish(r, Json(401, CreateErrorResponse(401, UNAUTHORIZED,
                                                         "authentication_error")))
          ELSE IF path = "/openapi.json"
            THEN Finish(r, Json(200, [k |-> "openapi"]))
          ELSE IF path = "/health"
            THEN Finish(r, Json(200, [status |-> "ok"]))
          ELSE IF path = "/v1/models"
            THEN pc' = [pc EXCEPT ![r] = "models"] /\ UNCHANGED response
          ELSE pc' = [pc EXCEPT ![r] = "body"] /\ UNCHANGED response
  /\ UNCHANGED <<cfgVars, parsed, providers, session, timer, aborted, msg, streamVars, err,
                 raw, sessions, messageCalls, createCalls>>

\* A request arrives: the middleware runs and, if it lets the request through,
\* the route's handler runs up to its first await.
Arrive(r) ==
  /\ pc[r] = "idle"
  /\ \E path \in Paths, auth \in AuthHeaders, body \in Bodies :
       /\ path # "/v1/chat/completions" => body = [k |-> "null"]
       /\ request' = [request EXCEPT ![r] = [path |-> path, auth |-> auth, body |-> body]]
       /\ IF ~AuthGate(path, auth, apiKey)
            THEN /\ Finish(r, Json(401, CreateErrorResponse(401, UNAUTHORIZED,
                                                            "authentication_error")))
                 /\ UNCHANGED listCalls
          ELSE IF path = "/openapi.json"
            THEN /\ Finish(r, Json(200, [k |-> "openapi"]))
                 /\ UNCHANGED listCalls
          ELSE IF path = "/health"
            THEN /\ Finish(r, Json(200, [status |-> "ok"]))
                 /\ UNCHANGED listCalls
          ELSE IF path = "/v1/models"
            THEN /\ pc' = [pc EXCEPT ![r] = "models"]
                 /\ listCalls' = listCalls + 1
                 /\ UNCHANGED response
          ELSE /\ pc' = [pc EXCEPT ![r] = "body"]
               /\ UNCHANGED <<response, listCalls>>
  /\ UNCHANGED <<cfgVars, parsed, providers, session, timer, aborted, msg, streamVars, err,
                 raw, sessions, messageCalls, createCalls>>

\* ------------------------------------------------------------ /v1/models

\* ModelEntries naming a model by its own id alone
ModelEntries_BareId(listing) ==
  Flatten([i \in 1..Len(listing) |->
             [j \in 1..Len(listing[i].models) |->
                [id |-> <<listing[i].models[j]>>,
                 object |-> "model", owned_by |-> listing[i].id]]])

ModelEntries(listing) ==
  Flatten([i \in 1..Len(listing) |->
             [j \in 1..Len(listing[i].models) |->
                [id |-> <<listing[i].id, "/", listing[i].models[j]>>,
                 object |-> "model", owned_by |-> listing[i].id]]])

ModelsReturn(r) ==
  /\ pc[r] = "models"
  /\ \E listing \in Listings :
       /\ providers' = [providers EXCEPT ![r] = listing]
       /\ Finish(r, Json(200, [data |-> ModelEntries(listing)]))
  /\ UNCHANGED <<cfgVars, request, parsed, session, timer, aborted, msg, streamVars, err, raw,
                 backendVars>>

ModelsFail(r) ==
  /\ pc[r] = "models"
  /\ \E e \in BackendErrors :
       /\ err' = [err EXCEPT ![r] = Thrown(e, "list")]
       /\ Finish(r, Json(500, CreateErrorResponse(500, ErrorMessage(e, LIST_FAILED),
                                                  "server_error")))
  /\ UNCHANGED <<cfgVars, reqVars, session, timer, aborted, msg, streamVars, raw,
                 backendVars>>

\* ------------------------------------------------------------ chat completions

EmptyObject == [k |-> "obj", messages |-> <<>>, stream |-> "undef"]
TYPE_ERROR == <<"T", "y", "p", "e", "E", "r", "r", "o", "r">>

\* await c.req.json().catch(() => ({}))
JsonBody(body) == IF body.k = "invalid" THEN EmptyObject ELSE body

\* the outer catch of the handler
OuterCatch(r, e, at) ==
  /\ err' = [err EXCEPT ![r] = Thrown(e, at)]
  /\ Finish(r, Json(400, CreateErrorResponse(400, ErrorMessage(e, INVALID_REQUEST),
                                             "invalid_request_error")))

\* The body has been read: it is normalised and the path is chosen.  Reading
\* .stream of null throws; the streaming path returns the response at once
\* and runs its callback, which calls session.create as does the other path.
ChatBody(r) ==
  /\ pc[r] = "body"
  /\ LET p == FromOaRequest(JsonBody(request[r].body))
     IN  /\ parsed' = [parsed EXCEPT ![r] = p]
         /\ IF p.k = "null"
              THEN /\ OuterCatch(r, Err(TYPE_ERROR), "parse")
                   /\ UNCHANGED createCalls
            ELSE IF p.k = "obj" /\ p.stream = "true"
              THEN /\ response' = [response EXCEPT ![r] =
                                     [status |-> 200, kind |-> "stream", body |-> [k |-> "sse"]]]
                   /\ pc' = [pc EXCEPT ![r] = "s_create"]
                   /\ createCalls' = [createCalls EXCEPT ![r] = @ + 1]
                   /\ UNCHANGED err
            ELSE /\ pc' = [pc EXCEPT ![r] = "n_create"]
                 /\ createCalls' = [createCalls EXCEPT ![r] = @ + 1]
                 /\ UNCHANGED <<response, err>>
  /\ UNCHANGED <<cfgVars, request, providers, session, timer, aborted, msg, streamVars, raw,
                 sessions, messageCalls, listCalls>>

\* CreateReturn taking the session from a pool shared by the requests
CreateReturn_Pooled(r, stream, next) ==
  /\ sessions' = IF sessions = <<>> THEN <<r>> ELSE sessions
  /\ session' = [session EXCEPT ![r] = 1]
  /\ timer' = [timer EXCEPT ![r] = "armed"]
  /\ messageCalls' = Append(messageCalls,
                            [by |-> r, sid |-> 1,
                             parts |-> IF stream THEN StreamMessageParts(parsed[r])
                                       ELSE MessageParts(parsed[r]),
                             stream |-> stream])
  /\ pc' = [pc EXCEPT ![r] = next]

\* session.create has returned: the parts are built, the deadline timer is
\* started and session.message is called
CreateReturn(r, stream, next) ==
  LET sid == Len(sessions) + 1
  IN  /\ sessions' = Append(sessions, r)
      /\ session' = [session EXCEPT ![r] = sid]
      /\ timer' = [timer EXCEPT ![r] = "armed"]
      /\ messageCalls' = Append(messageCalls,
                                [by |-> r, sid |-> sid,
                                 parts |-> IF stream THEN StreamMessageParts(parsed[r])
                                           ELSE MessageParts(parsed[r]),
                                 stream |-> stream])
      /\ pc' = [pc EXCEPT ![r] = next]

\* setTimeout(() => abortController.abort(), timeoutMs) runs its callback
TimerFire(r) ==
  /\ timer[r] = "armed"
  /\ timer' = [timer EXCEPT ![r] = "fired"]
  /\ aborted' = [aborted EXCEPT ![r] = TRUE]
  /\ UNCHANGED <<cfgVars, pc, reqVars, response, session, msg, streamVars, err, raw,
                 backendVars>>

\* one-shot replies of session.message
Replies == [kind : {"reply"}, parts : SeqsUpTo(OutParts, MaxReplyParts)]

\* ---- the non-streaming path

NCreateReturn(r) ==
  /\ pc[r] = "n_create"
  /\ CreateReturn(r, FALSE, "n_msg")
  /\ UNCHANGED <<cfgVars, reqVars, response, aborted, msg, streamVars, err, raw, listCalls,
                 createCalls>>

NCreateFail(r) ==
  /\ pc[r] = "n_create"
  /\ \E e \in BackendErrors : OuterCatch(r, e, "create")
  /\ UNCHANGED <<cfgVars, reqVars, session, timer, aborted, msg, streamVars, raw,
                 backendVars>>

NMessageReturn(r) ==
  /\ pc[r] = "n_msg"
  /\ \E reply \in Replies :
       /\ msg' = [msg EXCEPT ![r] = reply]
       /\ Finish(r, Json(200, ToOaResponse(reply)))
  /\ timer' = [timer EXCEPT ![r] = ClearTimeout(timer[r])]
  /\ UNCHANGED <<cfgVars, reqVars, session, aborted, streamVars, err, raw, backendVars>>

NMessageFail(r) ==
  /\ pc[r] = "n_msg"
  /\ \E e \in BackendErrors :
       LET errorMsg == ErrorMessage(e, UNKNOWN_ERROR)
       IN  /\ err' = [err EXCEPT ![r] = Thrown(e, "message")]
           /\ Finish(r, Json(ErrorStatus(errorMsg),
                             CreateErrorResponse(ErrorStatus(errorMsg), errorMsg,
                                                 ErrorType(errorMsg))))
  /\ timer' = [timer EXCEPT ![r] = ClearTimeout(timer[r])]
  /\ UNCHANGED <<cfgVars, reqVars, session, aborted, msg, streamVars, raw, backendVars>>

\* ---- the streaming path

\* FramesOfChunk writing the texts of one chunk as a single frame
FramesOfChunk_Coalesced(chunk) ==
  IF ~chunk.hasParts THEN <<>>
  ELSE LET Emits(p) == p.type = "text" /\ ~Falsy(p.text)
           kept == SelectSeq(chunk.parts, Emits)
       IN  IF kept = <<>> THEN <<>> ELSE <<Join([i \in 1..Len(kept) |-> kept[i].text.s])>>

\* the texts one chunk is written as: one per part of type text with a
\* non-empty text, in part order
FramesOfChunk(chunk) ==
  IF ~chunk.hasParts THEN <<>>
  ELSE LET Emits(p) == p.type = "text" /\ ~Falsy(p.text)
           kept == SelectSeq(chunk.parts, Emits)
       IN  [i \in 1..Len(kept) |-> kept[i].text.s]

\* FramesOfReply writing one frame per text part instead of their concatenation
FramesOfReply_PerPart(reply) == FramesOfChunk(Chunk(reply.parts))

\* the text the fallback branch writes for a one-shot reply, if any
FramesOfReply(reply) ==
  LET text == ReplyText(reply.parts)
  IN  IF text # <<>> THEN <<text>> ELSE <<>>

\* ErrorData classifying by equality with "timeout" instead of includes
ErrorData_ExactMatch(e) ==
  LET errorMsg == ErrorMessage(e, UNKNOWN_ERROR)
  IN  [error |-> [message |-> IF errorMsg = TIMEOUT THEN PROVIDER_TIMEOUT ELSE errorMsg,
                  type |-> IF errorMsg = TIMEOUT THEN "provider_error" ELSE "server_error"]]

\* the body of the error frame the catch clause writes
ErrorData(e) ==
  LET errorMsg == ErrorMessage(e, UNKNOWN_ERROR)
  IN  [error |-> [message |-> IF Includes(errorMsg, TIMEOUT) THEN PROVIDER_TIMEOUT
                              ELSE errorMsg,
                  type |-> ErrorType(errorMsg)]]

\* InnerThrow with clearTimeout left out of the failure path
InnerThrow_NoFinally(r, e, at) ==
  /\ timer' = timer
  /\ err' = [err EXCEPT ![r] = Thrown(e, at)]
  /\ pc' = [pc EXCEPT ![r] = "s_err"]

\* a failure inside the inner try: finally clears the timer, catch takes over
\* and starts writing the error frame
InnerThrow(r, e, at) ==
  /\ timer' = [timer EXCEPT ![r] = ClearTimeout(timer[r])]
  /\ err' = [err EXCEPT ![r] = Thrown(e, at)]
  /\ pc' = [pc EXCEPT ![r] = "s_err"]

\* where the try block goes on once the texts in hand are written
AfterWrites(r, left, kind) ==
  IF left # <<>> THEN "s_write" ELSE IF kind = "iter" THEN "s_next" ELSE "s_done"

SCreateReturn(r) ==
  /\ pc[r] = "s_create"
  /\ CreateReturn(r, TRUE, "s_msg")
  /\ UNCHANGED <<cfgVars, reqVars, response, aborted, msg, streamVars, err, raw, listCalls,
                 createCalls>>

SCreateFail(r) ==
  /\ pc[r] = "s_create"
  /\ \E e \in BackendErrors :
       /\ err' = [err EXCEPT ![r] = Thrown(e, "create")]
       /\ pc' = [pc EXCEPT ![r] = "s_err"]
  /\ UNCHANGED <<cfgVars, reqVars, response, session, timer, aborted, msg, streamVars,
                 raw, backendVars>>

\* session.message returns a chunk sequence
SMessageIter(r) ==
  /\ pc[r] = "s_msg"
  /\ msg' = [msg EXCEPT ![r] = [kind |-> "iter", parts |-> <<>>]]
  /\ pc' = [pc EXCEPT ![r] = "s_next"]
  /\ UNCHANGED <<cfgVars, reqVars, response, session, timer, aborted, streamVars, err,
                 raw, backendVars>>

\* session.message returns a one-shot reply: the fallback branch
SMessageReply(r) ==
  /\ pc[r] = "s_msg"
  /\ \E reply \in Replies :
       /\ msg' = [msg EXCEPT ![r] = reply]
       /\ pending' = [pending EXCEPT ![r] = FramesOfReply(reply)]
       /\ pc' = [pc EXCEPT ![r] = AfterWrites(r, FramesOfReply(reply), "reply")]
  /\ UNCHANGED <<cfgVars, reqVars, response, session, timer, aborted, arrived, frames,
                 err, raw, backendVars>>

SMessageFail(r) ==
  /\ pc[r] = "s_msg"
  /\ \E e \in BackendErrors : InnerThrow(r, e, "message")
  /\ UNCHANGED <<cfgVars, reqVars, response, session, aborted, msg, streamVars, raw,
                 backendVars>>

\* the chunk sequence yields a chunk
SNextChunk(r) ==
  /\ pc[r] = "s_next"
  /\ Len(arrived[r]) < MaxChunks
  /\ \E n \in 0..(MaxStreamParts - TotalParts(arrived[r])) :
       \E chunk \in {NoPartsChunk} \cup {Chunk(ps) : ps \in [1..n -> OutParts]} :
         /\ arrived' = [arrived EXCEPT ![r] = Append(arrived[r], chunk)]
         /\ pending' = [pending EXCEPT ![r] = FramesOfChunk(chunk)]
         /\ pc' = [pc EXCEPT ![r] = AfterWrites(r, FramesOfChunk(chunk), "iter")]
  /\ UNCHANGED <<cfgVars, reqVars, response, session, timer, aborted, msg, frames, err,
                 raw, backendVars>>

\* the chunk sequence ends
SNextEnd(r) ==
  /\ pc[r] = "s_next"
  /\ pc' = [pc EXCEPT ![r] = "s_done"]
  /\ UNCHANGED <<cfgVars, reqVars, response, session, timer, aborted, msg, streamVars,
                 err, raw, backendVars>>

\* iterating the chunk sequence throws
SNextFail(r) ==
  /\ pc[r] = "s_next"
  /\ \E e \in BackendErrors : InnerThrow(r, e, "next")
  /\ UNCHANGED <<cfgVars, reqVars, response, session, aborted, msg, streamVars, raw,
                 backendVars>>

\* stream.write of a chunk frame
SWrite(r) ==
  /\ pc[r] = "s_write"
  /\ \/ /\ frames' = [frames EXCEPT ![r] = Append(frames[r], ChunkFrame(Head(pending[r])))]
        /\ pending' = [pending EXCEPT ![r] = Tail(pending[r])]
        /\ pc' = [pc EXCEPT ![r] = AfterWrites(r, Tail(pending[r]), msg[r].kind)]
        /\ UNCHANGED <<timer, err>>
     \/ /\ InnerThrow(r, WriteError, "write")
        /\ UNCHANGED <<frames, pending>>
  /\ UNCHANGED <<cfgVars, reqVars, response, session, aborted, msg, arrived, raw,
                 backendVars>>

\* SDone whose failing write has put the sentinel on the wire all the same
SDone_FailedWriteLands(r) ==
  /\ pc[r] = "s_done"
  /\ \/ /\ frames' = [frames EXCEPT ![r] = Append(frames[r], DoneFrame)]
        /\ timer' = [timer EXCEPT ![r] = ClearTimeout(timer[r])]
        /\ pc' = [pc EXCEPT ![r] = "done"]
        /\ UNCHANGED err
     \/ /\ InnerThrow(r, WriteError, "write")
        /\ frames' = [frames EXCEPT ![r] = Append(frames[r], DoneFrame)]
  /\ UNCHANGED <<cfgVars, reqVars, response, session, aborted, msg, arrived, pending,
                 raw, backendVars>>

\* stream.write("data: [DONE]") at the end of the try block
SDone(r) ==
  /\ pc[r] = "s_done"
  /\ \/ /\ frames' = [frames EXCEPT ![r] = Append(frames[r], DoneFrame)]
        /\ timer' = [timer EXCEPT ![r] = ClearTimeout(timer[r])]
        /\ pc' = [pc EXCEPT ![r] = "done"]
        /\ UNCHANGED err
     \/ /\ InnerThrow(r, WriteError, "write")
        /\ UNCHANGED frames
  /\ UNCHANGED <<cfgVars, reqVars, response, session, aborted, msg, arrived, pending,
                 raw, backendVars>>

\* the catch clause: stream.write of the error frame
SErr(r) ==
  /\ pc[r] = "s_err"
  /\ \/ /\ frames' = [frames EXCEPT ![r] = Append(frames[r], ErrorFrame(ErrorData(err[r])))]
        /\ pc' = [pc EXCEPT ![r] = "s_errdone"]
        /\ UNCHANGED raw
     \/ /\ raw' = [raw EXCEPT ![r] = TRUE]
        /\ pc' = [pc EXCEPT ![r] = "done"]
        /\ UNCHANGED frames
  /\ UNCHANGED <<cfgVars, reqVars, response, session, timer, aborted, msg, arrived,
                 pending, err, backendVars>>

\* SErrDone with the sentinel left out of the catch clause
SErrDone_NoSentinel(r) ==
  /\ pc[r] = "s_errdone"
  /\ pc' = [pc EXCEPT ![r] = "done"]
  /\ UNCHANGED <<cfgVars, reqVars, response, session, timer, aborted, msg, streamVars,
                 err, raw, backendVars>>

\* the catch clause: stream.write("data: [DONE]")
SErrDone(r) ==
  /\ pc[r] = "s_errdone"
  /\ \/ /\ frames' = [frames EXCEPT ![r] = Append(frames[r], DoneFrame)]
        /\ UNCHANGED raw
     \/ /\ raw' = [raw EXCEPT ![r] = TRUE]
        /\ UNCHANGED frames
  /\ pc' = [pc EXCEPT ![r] = "done"]
  /\ UNCHANGED <<cfgVars, reqVars, response, session, timer, aborted, msg, arrived,
                 pending, err, backendVars>>

\* ------------------------------------------------------------ specification

Next ==
  \/ \E r \in reqs : Arrive(r)
  \/ \E r \in reqs : ModelsReturn(r)
  \/ \E r \in reqs : ModelsFail(r)
  \/ \E r \in reqs : ChatBody(r)
  \/ \E r \in reqs : TimerFire(r)
  \/ \E r \in reqs : NCreateReturn(r)
  \/ \E r \in reqs : NCreateFail(r)
  \/ \E r \in reqs : NMessageReturn(r)
  \/ \E r \in reqs : NMessageFail(r)
  \/ \E r \in reqs : SCreateReturn(r)
  \/ \E r \in reqs : SCreateFail(r)
  \/ \E r \in reqs : SMessageIter(r)
  \/ \E r \in reqs : SMessageReply(r)
  \/ \E r \in reqs : SMessageFail(r)
  \/ \E r \in reqs : SNextChunk(r)
  \/ \E r \in reqs : SNextEnd(r)
  \/ \E r \in reqs : SNextFail(r)
  \/ \E r \in reqs : SWrite(r)
  \/ \E r \in reqs : SDone(r)
  \/ \E r \in reqs : SErr(r)
  \/ \E r \in reqs : SErrDone(r)

Spec == Init /\ [][Next]_vars

\* ------------------------------------------------------------ concurrent requests

\* NumReqs requests in flight together, interleaved at their awaits.  The
\* environment is held to few inputs: no key, chat and model requests,
\* listings of at most one provider, one streaming and one non-streaming
\* body, replies without parts, at most one chunk, one backend failure, a
\* client that stays connected so that no write fails, deadlines that
\* elapse on non-streaming requests only.
HI_BODY ==
  [k |-> "obj", messages |-> <<Message("user", StrContent(<<"h", "i">>))>>, stream |-> "true"]

ConcInputs ==
  \A r \in reqs :
    /\ request[r].auth = Undef
    /\ request[r].path \in {"", "/v1/models", "/v1/chat/completions"}
    /\ request[r].path = "" => request[r].body = [k |-> "none"]
    /\ request[r].path = "/v1/models" => request[r].body = [k |-> "null"]
    /\ request[r].path = "/v1/chat/completions" => request[r].body \in {EmptyObject, HI_BODY}
    /\ msg[r].parts = <<>>
    /\ \A i \in 1..Len(arrived[r]) :
         i = 1 /\ arrived[r][i] = Chunk(<<Part("text", Str(<<"a">>))>>)
    /\ err[r].k = "thrown" =>
         err[r].isError /\ err[r].message = <<"b", "o", "o", "m">> /\ err[r].at # "write"
    /\ ~raw[r]
    /\ Len(providers[r]) <= 1
    /\ timer[r] = "fired" => ~request[r].body.stream = "true"

InitConc ==
  /\ InitWith(1..NumReqs)
  /\ startup = [option |-> Undef, env |-> Undef]

NextConc ==
  \/ \E r \in reqs : Arrive(r) /\ ConcInputs'
  \/ \E r \in reqs : ModelsReturn(r) /\ ConcInputs'
  \/ \E r \in reqs : ModelsFail(r) /\ ConcInputs'
  \/ \E r \in reqs : ChatBody(r) /\ ConcInputs'
  \/ \E r \in reqs : TimerFire(r) /\ ConcInputs'
  \/ \E r \in reqs : NCreateReturn(r) /\ ConcInputs'
  \/ \E r \in reqs : NCreateFail(r) /\ ConcInputs'
  \/ \E r \in reqs : NMessageReturn(r) /\ ConcInputs'
  \/ \E r \in reqs : NMessageFail(r) /\ ConcInputs'
  \/ \E r \in reqs : SCreateReturn(r) /\ ConcInputs'
  \/ \E r \in reqs : SCreateFail(r) /\ ConcInputs'
  \/ \E r \in reqs : SMessageIter(r) /\ ConcInputs'
  \/ \E r \in reqs : SMessageReply(r) /\ ConcInputs'
  \/ \E r \in reqs : SMessageFail(r) /\ ConcInputs'
  \/ \E r \in reqs : SNextChunk(r) /\ ConcInputs'
  \/ \E r \in reqs : SNextEnd(r) /\ ConcInputs'
  \/ \E r \in reqs : SNextFail(r) /\ ConcInputs'
  \/ \E r \in reqs : SWrite(r) /\ ConcInputs'
  \/ \E r \in reqs : SDone(r) /\ ConcInputs'
  \/ \E r \in reqs : SErr(r) /\ ConcInputs'
  \/ \E r \in reqs : SErrDone(r) /\ ConcInputs'

SpecConc == InitConc /\ [][NextConc]_vars

\* ------------------------------------------------------------ normalisation

\* the elements a messages array can hold: null, a message with no role or
\* with a role outside the four, and each role with its content shapes
NoContent == [k |-> "undef", s |-> <<>>, parts |-> <<>>]

MsgsIn ==
  {[k |-> "null", role |-> "", content |-> NoContent],
   Message("", StrContent(<<"x">>)),
   Message("function", StrContent(<<"f">>)),
   Message("system", StrContent(<<>>)),
   Message("system", StrContent(<<"s">>)),
   Message("system", ArrContent(<<InPart("text", Str(<<"s">>))>>)),
   Message("user", StrContent(<<"u">>)),
   Message("user", StrContent(<<>>)),
   Message("user", ArrContent(<<>>)),
   Message("user", ArrContent(<<InPart("text", Str(<<"a">>))>>)),
   Message("user", ArrContent(<<InPart("text", Str(<<"a">>)), InPart("image_url", Undef),
                                InPart("text", Undef), InPart("text", Str(<<"b">>))>>)),
   Message("assistant", StrContent(<<"c">>)),
   Message("assistant", NoContent),
   Message("tool", StrContent(<<"t">>))}

NormBodies ==
  [k : {"obj"}, messages : SeqsUpTo(MsgsIn, MaxMsgs), stream : {"undef", "true"}]

\* A chat request has passed the middleware with a body of NormBodies and is
\* about to be normalised; it is followed up to its session.message call.
InitNorm ==
  /\ InitWith({1})
  /\ startup = [option |-> Undef, env |-> Undef]

ArriveNorm(r) ==
  /\ pc[r] = "idle"
  /\ \E body \in NormBodies :
       request' = [request EXCEPT ![r] = [path |-> "/v1/chat/completions", auth |-> Undef,
                                          body |-> body]]
  /\ pc' = [pc EXCEPT ![r] = "body"]
  /\ UNCHANGED <<cfgVars, response, parsed, providers, session, timer, aborted, msg,
                 streamVars, err, raw, backendVars>>

NextNorm ==
  \/ \E r \in reqs : ArriveNorm(r)
  \/ \E r \in reqs : ChatBody(r)
  \/ \E r \in reqs : NCreateReturn(r)
  \/ \E r \in reqs : SCreateReturn(r)

SpecNorm == InitNorm /\ [][NextNorm]_vars

\* ------------------------------------------------------------ properties

CHAT == "/v1/chat/completions"

\* request r took the streaming path: c.streaming returned its response
Streaming(r) == response[r].kind = "stream"

\* request r took the non-streaming path: it went on to session.create
NonStreaming(r) ==
  /\ request[r].path = CHAT
  /\ parsed[r].k \in {"obj", "prim"}
  /\ ~Streaming(r)

\* the middleware answered request r
Rejected(r) == pc[r] = "done" /\ response[r].status = 401

\* no stream.write of request r has failed
NoWriteFailed(r) == ~raw[r] /\ err[r].at # "write"

Last(xs) == xs[Len(xs)]
DoneCount(fs) == Cardinality({i \in 1..Len(fs) : fs[i] = DoneFrame})

\* the delta.content of the chunk frames among fs, in the order written
RECURSIVE ContentsOf(_)
ContentsOf(fs) ==
  IF fs = <<>> THEN <<>>
  ELSE (IF Head(fs).kind = "chunk"
          THEN <<Head(fs).data.choices[1].delta.content>> ELSE <<>>) \o ContentsOf(Tail(fs))

\* the parts of the chunks cs in arrival order, chunk by chunk
RECURSIVE PartsInOrder(_)
PartsInOrder(cs) ==
  IF cs = <<>> THEN <<>>
  ELSE (IF Head(cs).hasParts THEN Head(cs).parts ELSE <<>>) \o PartsInOrder(Tail(cs))

\* one text per part of type text with a non-empty text, in the order of ps
RECURSIVE VisibleTexts(_)
VisibleTexts(ps) ==
  IF ps = <<>> THEN <<>>
  ELSE (IF Head(ps).type = "text" /\ Head(ps).text.k = "str" /\ Len(Head(ps).text.s) > 0
          THEN <<Head(ps).text.s>> ELSE <<>>) \o VisibleTexts(Tail(ps))

\* the texts of the parts of type text, one after the other
RECURSIVE ConcatTexts(_)
ConcatTexts(ps) ==
  IF ps = <<>> THEN <<>>
  ELSE (IF Head(ps).type = "text" /\ Head(ps).text.k = "str" THEN Head(ps).text.s ELSE <<>>)
       \o ConcatTexts(Tail(ps))

IsPrefix(xs, ys) == Len(xs) <= Len(ys) /\ SubSeq(ys, 1, Len(xs)) = xs

\* C1: when the streaming callback has finished and no write has failed, the
\* frames written contain [DONE] exactly once, as the last frame, whatever
\* the backend did.
C1_DoneOnceAndLast ==
  \A r \in reqs :
    (Streaming(r) /\ pc[r] = "done" /\ NoWriteFailed(r)) =>
      /\ frames[r] # <<>>
      /\ Last(frames[r]) = DoneFrame
      /\ DoneCount(frames[r]) = 1

\* C1 witness: a failure part-way through the chunks, after a chunk frame
\* was written, and the stream still ends with the sentinel
C1_Witness ==
  \E r \in reqs :
    /\ Streaming(r) /\ pc[r] = "done" /\ NoWriteFailed(r)
    /\ err[r].at = "next"
    /\ Len(frames[r]) = 3
    /\ frames[r][1].kind = "chunk"

\* C2: the chunk frames written are, in order, one frame per part of type
\* text with non-empty text of the chunks that arrived, in arrival and part
\* order, each carrying exactly that part's text: always a prefix of them,
\* and all of them whenever the next chunk is awaited or the sequence ended.
C2_FramesFollowChunks ==
  \A r \in reqs :
    msg[r].kind = "iter" =>
      /\ IsPrefix(ContentsOf(frames[r]), VisibleTexts(PartsInOrder(arrived[r])))
      /\ (pc[r] \in {"s_next", "s_done"} \/ (pc[r] = "done" /\ err[r].k = "none")) =>
           ContentsOf(frames[r]) = VisibleTexts(PartsInOrder(arrived[r]))
      /\ pc[r] = "s_write" =>
           ContentsOf(frames[r]) \o pending[r] = VisibleTexts(PartsInOrder(arrived[r]))

\* C2 witness: two chunks arrived, a skipped one and one with two different
\* texts, and the stream ended with the two frames in part order
C2_Witness ==
  \E r \in reqs :
    /\ msg[r].kind = "iter" /\ pc[r] = "done" /\ err[r].k = "none"
    /\ Len(arrived[r]) = 2
    /\ Len(arrived[r][2].parts) = 2
    /\ ContentsOf(frames[r]) = <<<<"b">>, <<"a">>>>

\* C3 (as claimed): a non-streaming request whose deadline timer fired while
\* the message call was in flight is answered with 504 and provider_error.
C3_DeadlineGives504 ==
  \A r \in reqs :
    (NonStreaming(r) /\ pc[r] = "done" /\ timer[r] = "fired") =>
      /\ response[r].status = 504
      /\ response[r].body.error.type = "provider_error"

\* C4 (as claimed): once the deadline timer has fired while the streaming
\* path waits for the message call or for the next chunk, the only step the
\* handler takes is into the error frame followed by [DONE].
C4_DeadlineEndsStream ==
  [][\A r \in reqs :
       (timer[r] = "fired" /\ pc[r] \in {"s_msg", "s_next"} /\ pc'[r] # pc[r]) =>
         pc'[r] = "s_err"]_vars

\* C5 (as claimed): on the non-streaming path a failure of session.create or
\* of session.message is answered 504 provider_error when its message
\* contains "timeout" and 500 server_error otherwise, never 400.
C5_BackendFailureClass ==
  \A r \in reqs :
    (NonStreaming(r) /\ pc[r] = "done" /\ err[r].at \in {"create", "message"}) =>
      LET timeout == err[r].isError /\ Includes(err[r].message, TIMEOUT)
      IN  /\ response[r].status = IF timeout THEN 504 ELSE 500
          /\ response[r].body.error.type = IF timeout THEN "provider_error" ELSE "server_error"

\* C6 (as claimed): a chat request whose body is not JSON is answered 400
\* invalid_request_error and no session is created for it.
C6_InvalidJsonGives400 ==
  \A r \in reqs :
    (request[r].path = CHAT /\ request[r].body.k = "invalid" /\ ~Rejected(r)) =>
      /\ session[r] = 0
      /\ pc[r] = "done" =>
           /\ response[r].status = 400
           /\ response[r].body.error.type = "invalid_request_error"

\* C7 (as claimed): without a configured key nothing is rejected; with a key,
\* a request to a route other than /openapi.json passes iff its header is
\* exactly "Bearer <key>", and is otherwise answered 401
\* authentication_error; /openapi.json always passes.
C7_AuthGate ==
  \A r \in reqs :
    pc[r] # "idle" =>
      /\ apiKey.k = "undef" => ~Rejected(r)
      /\ request[r].path = "/openapi.json" => ~Rejected(r)
      /\ (apiKey.k = "str" /\ request[r].path # "/openapi.json") =>
           (~Rejected(r) <=> request[r].auth = Str(BEARER \o SP \o apiKey.s))
      /\ Rejected(r) => response[r].body.error.type = "authentication_error"

\* C8 (as claimed): GET /health is answered 200 with status "ok" whatever
\* the configuration and the Authorization header.
C8_HealthAlways200 ==
  \A r \in reqs :
    (request[r].path = "/health" /\ pc[r] = "done") =>
      /\ response[r].status = 200
      /\ response[r].body.status = "ok"

\* C9: on the non-streaming path a reply the message call returned is
\* answered 200 with a chat.completion of exactly one choice, index 0,
\* finish_reason stop, whose content is the texts of the reply's parts of
\* type text, in order, without separator.
C9_ContentIsConcatenation ==
  \A r \in reqs :
    (NonStreaming(r) /\ pc[r] = "done" /\ msg[r].kind = "reply") =>
      /\ response[r].status = 200
      /\ response[r].body.object = "chat.completion"
      /\ Len(response[r].body.choices) = 1
      /\ response[r].body.choices[1].index = 0
      /\ response[r].body.choices[1].finish_reason = "stop"
      /\ response[r].body.choices[1].message.content = ConcatTexts(msg[r].parts)

\* C9 witness: a reply of a part that is not text and a text part
C9_Witness ==
  \E r \in reqs :
    /\ NonStreaming(r) /\ pc[r] = "done"
    /\ msg[r] = [kind |-> "reply",
                 parts |-> <<Part("tool", Str(<<"a">>)), Part("text", Str(<<"b">>))>>]
    /\ response[r].body.choices[1].message.content = <<"b">>

\* C10: no request is finished while its deadline timer is armed.
C10_TimerCleared ==
  \A r \in reqs : pc[r] = "done" => timer[r] # "armed"

\* C10 witness: a request that ended after a failed stream write, its timer
\* cleared
C10_Witness ==
  \E r \in reqs : pc[r] = "done" /\ timer[r] = "cleared" /\ err[r].at = "write"

ErrorCount(fs) == Cardinality({i \in 1..Len(fs) : fs[i].kind = "error"})

\* C11: a stream carries at most one error frame, and none while no failure
\* was caught; when the callback has finished after a backend failure and no
\* write failed, the frames are the chunk frames written so far, then one
\* error frame with a message and a type, then [DONE], and the type is
\* provider_error iff the failure's message contains "timeout", else
\* server_error.
C11_OneErrorFrameBeforeDone ==
  \A r \in reqs :
    Streaming(r) =>
      /\ ErrorCount(frames[r]) <= 1
      /\ err[r].k = "none" => ErrorCount(frames[r]) = 0
      /\ (pc[r] = "done" /\ NoWriteFailed(r) /\ err[r].k = "thrown") =>
           LET n == Len(frames[r])
               timeout == err[r].isError /\ Includes(err[r].message, TIMEOUT)
           IN  /\ n >= 2
               /\ \A i \in 1..(n - 2) : frames[r][i].kind = "chunk"
               /\ frames[r][n - 1].kind = "error"
               /\ frames[r][n] = DoneFrame
               /\ DOMAIN frames[r][n - 1].data.error = {"message", "type"}
               /\ frames[r][n - 1].data.error.type =
                    IF timeout THEN "provider_error" ELSE "server_error"

\* C11 witness: the chunk sequence fails with a message that contains
\* "timeout" after a chunk frame was written
C11_Witness ==
  \E r \in reqs :
    /\ Streaming(r) /\ pc[r] = "done" /\ NoWriteFailed(r)
    /\ err[r].at = "next" /\ Includes(err[r].message, TIMEOUT)
    /\ Len(frames[r]) = 3
    /\ frames[r][1].kind = "chunk"
    /\ frames[r][2].data.error.type = "provider_error"

\* C12 (as claimed): a one-shot reply on the streaming path is written as
\* exactly one chunk frame carrying the concatenation of its text parts,
\* followed by [DONE], also when that concatenation is empty.
C12_FallbackAlwaysOneFrame ==
  \A r \in reqs :
    (Streaming(r) /\ msg[r].kind = "reply" /\ pc[r] = "done" /\ err[r].k = "none") =>
      /\ Len(frames[r]) = 2
      /\ ContentsOf(frames[r]) = <<ConcatTexts(msg[r].parts)>>
      /\ frames[r][2] = DoneFrame

\* C12 (amended): a one-shot reply on the streaming path is written as one
\* chunk frame carrying the concatenation of its text parts when that
\* concatenation is not empty and as no chunk frame when it is empty,
\* followed in both cases by [DONE].
C12_FallbackOneFrameUnlessEmpty ==
  \A r \in reqs :
    (Streaming(r) /\ msg[r].kind = "reply" /\ pc[r] = "done" /\ err[r].k = "none") =>
      LET text == ConcatTexts(msg[r].parts)
      IN  /\ ContentsOf(frames[r]) = IF text = <<>> THEN <<>> ELSE <<text>>
          /\ Len(frames[r]) = Len(ContentsOf(frames[r])) + 1
          /\ Last(frames[r]) = DoneFrame

\* C12 witness: a reply of two text parts, written as one frame
C12_Witness ==
  \E r \in reqs :
    /\ Streaming(r) /\ pc[r] = "done" /\ err[r].k = "none"
    /\ msg[r] = [kind |-> "reply",
                 parts |-> <<Part("text", Str(<<"a">>)), Part("text", Str(<<"b">>))>>]
    /\ ContentsOf(frames[r]) = <<<<"a", "b">>>>

\* the message calls request r has made
CallsBy(r) == {i \in 1..Len(messageCalls) : messageCalls[i].by = r}

\* C13: with requests interleaved at their awaits, a request calls
\* session.create at most once, and once as soon as it is on either path; it
\* calls session.message at most once, only after its own session.create
\* has returned, with the id that call returned, which no other request
\* holds; and the step that clears a request's timer is a step of that
\* request's handler and of no other.
C13_RequestsAreIsolated ==
  /\ [](\A r \in reqs :
          /\ createCalls[r] <= 1
          /\ (Streaming(r) \/ NonStreaming(r)) => createCalls[r] = 1
          /\ Cardinality(CallsBy(r)) <= 1
          /\ \A i \in CallsBy(r) :
               /\ session[r] # 0
               /\ messageCalls[i].sid = session[r]
          /\ session[r] # 0 =>
               /\ sessions[session[r]] = r
               /\ \A q \in reqs \ {r} : session[q] # session[r])
  /\ [][\A r \in reqs :
          (timer[r] = "armed" /\ timer'[r] = "cleared") =>
            /\ pc'[r] # pc[r]
            /\ \A q \in reqs \ {r} : pc'[q] = pc[q] /\ timer'[q] = timer[q]]_vars

\* C13 witness: the second request's session was created first, both have
\* sent their message, and the first request is finished, its timer cleared,
\* while the second still waits with its timer running
C13_Witness ==
  /\ sessions = <<2, 1>>
  /\ session = <<2, 1>>
  /\ Len(messageCalls) = 2
  /\ messageCalls[1].stream # messageCalls[2].stream
  /\ pc[1] = "done" /\ timer[1] = "cleared"
  /\ pc[2] = "s_next" /\ timer[2] = "armed"

\* the j-th index of a set of indices, in increasing order
Nth(Ix, j) == CHOOSE i \in Ix : Cardinality({x \in Ix : x <= i}) = j

\* the strings a content carries: itself, or the texts of its text parts
ContentTexts(c) ==
  IF c.k = "str" THEN <<c.s>>
  ELSE LET HasText(q) == q.type = "text" /\ q.text.k = "str"
           ts == SelectSeq(c.parts, HasText)
       IN  [i \in 1..Len(ts) |-> ts[i].text.s]

\* the messages the claim says are dropped, and those the role rules keep
MustDrop(m) ==
  \/ m.k # "obj"
  \/ m.role \notin {"system", "user", "assistant", "tool"}
  \/ m.role = "system" /\ m.content = StrContent(<<>>)

MustKeep(m) ==
  /\ m.k = "obj"
  /\ \/ m.role \in {"assistant", "tool"}
     \/ m.role = "system" /\ m.content.k = "str" /\ m.content.s # <<>>
     \/ m.role = "user" /\ m.content.k = "str"
     \/ /\ m.role = "user" /\ m.content.k = "arr"
        /\ \E i \in 1..Len(m.content.parts) :
             LET q == m.content.parts[i]
             IN  (q.type = "text" /\ q.text.k = "str") \/ q.type = "image_url"

\* output message o is made of input message m and of nothing else
DerivedFrom(o, m) ==
  /\ m.k = "obj"
  /\ o.role = m.role
  /\ m.role \in {"system", "tool"} => o.content = m.content
  /\ m.role = "assistant" /\ m.content.k = "str" => o.content = m.content
  /\ m.role = "user" => ContentTexts(o.content) = ContentTexts(m.content)

\* C14: the normalised messages are the input messages at an increasing
\* selection of indices, one output per selected input; the selection holds
\* no message without a role of the four and no system message with empty
\* string content, and holds every message the role rules keep.
C14_OrderPreserved ==
  \A r \in reqs :
    (request[r].body.k = "obj" /\ parsed[r].k = "obj") =>
      LET in == request[r].body.messages
          out == parsed[r].messages
      IN  \E Ix \in SUBSET (1..Len(in)) :
            /\ Len(out) = Cardinality(Ix)
            /\ \A j \in 1..Len(out) : DerivedFrom(out[j], in[Nth(Ix, j)])
            /\ \A i \in 1..Len(in) :
                 /\ MustDrop(in[i]) => i \notin Ix
                 /\ MustKeep(in[i]) => i \in Ix

\* C14 witness: three messages, the middle one an empty system message,
\* normalised to the user message followed by the assistant message
C14_Witness ==
  /\ parsed[1].k = "obj"
  /\ request[1].body.k = "obj"
  /\ Len(request[1].body.messages) = 3
  /\ request[1].body.messages[2] = Message("system", StrContent(<<>>))
  /\ Len(parsed[1].messages) = 2
  /\ parsed[1].messages[1].role = "user"
  /\ parsed[1].messages[2].role = "assistant"

\* the (provider, model) pairs of a listing, by position
PairsOf(listing) ==
  UNION {{<<i, j>> : j \in 1..Len(listing[i].models)} : i \in 1..Len(listing)}

ModelsAnswered(r) == request[r].path = "/v1/models" /\ pc[r] = "done" /\ ~Rejected(r)

\* C15: a /v1/models request whose provider listing returned is answered 200
\* with as many entries as the listing has (provider, model) pairs, one for
\* each pair with id provider/model, object "model" and owned_by the
\* provider; two requests that saw the same listing got the same response;
\* a request whose listing failed is answered 500 with type server_error.
C15_ModelsListing ==
  /\ \A r \in reqs :
       ModelsAnswered(r) =>
         IF err[r].k = "none"
           THEN LET l == providers[r]
                    d == response[r].body.data
                IN  /\ response[r].status = 200
                    /\ Len(d) = Cardinality(PairsOf(l))
                    /\ \A pr \in PairsOf(l) :
                         Cardinality({n \in 1..Len(d) :
                                        d[n] = [id |-> <<l[pr[1]].id, "/", l[pr[1]].models[pr[2]]>>,
                                                object |-> "model",
                                                owned_by |-> l[pr[1]].id]}) = 1
           ELSE /\ response[r].status = 500
                /\ DOMAIN response[r].body = {"error"}
                /\ response[r].body.error.type = "server_error"
  /\ \A r, q \in reqs :
       (ModelsAnswered(r) /\ ModelsAnswered(q) /\ err[r].k = "none" /\ err[q].k = "none"
        /\ providers[r] = providers[q]) => response[r] = response[q]

\* C15 witness: two requests have listed the same two models, and got both
C15_Witness ==
  /\ \A r \in reqs : ModelsAnswered(r) /\ err[r].k = "none"
  /\ Cardinality(reqs) = NumReqs
  /\ \A r \in reqs : Cardinality(PairsOf(providers[r])) = 2 /\ Len(response[r].body.data) = 2

\* C16: when the command is started without the key option, a request that
\* carries no key is answered 401 on every path the middleware checks.
C16_KeyGeneratedWhenNoOption ==
  \A r \in reqs :
    (Falsy(startup.option) /\ pc[r] = "done" /\ request[r].auth = Undef
     /\ request[r].path # "/openapi.json") => response[r].status = 401

\* C17: no failure leaves the chat handler as a raw exception: a finished
\* chat request on which something was thrown has either a JSON error
\* envelope as its response or an error frame and then [DONE] as its last
\* two frames.
C17_NoRawException ==
  \A r \in reqs :
    /\ ~raw[r]
    /\ (pc[r] = "done" /\ request[r].path = CHAT /\ err[r].k = "thrown") =>
         IF response[r].kind = "json"
           THEN DOMAIN response[r].body = {"error"}
           ELSE LET n == Len(frames[r])
                IN  /\ n >= 2
                    /\ frames[r][n - 1].kind = "error"
                    /\ frames[r][n] = DoneFrame

\* C18: on the streaming path, whichever writes fail, [DONE] is among the
\* frames written at most once, and once it is there no step writes a
\* further frame.
C18_DoneAtMostOnce ==
  /\ [](\A r \in reqs : DoneCount(frames[r]) <= 1)
  /\ [][\A r \in reqs : DoneCount(frames[r]) = 1 => frames'[r] = frames[r]]_vars

\* C18 witness: the write of a chunk frame failed, the error frame and the
\* sentinel were written
C18_Witness ==
  \E r \in reqs :
    /\ pc[r] = "done" /\ ~raw[r]
    /\ err[r].at = "write"
    /\ ErrorCount(frames[r]) = 1
    /\ DoneCount(frames[r]) = 1

\* the parts the claim expects of the normalised messages: the texts of the
\* user messages, in order
UserTexts(msgs) ==
  LET OfMsg(m) == IF m.role # "user" THEN <<>>
                  ELSE LET ts == ContentTexts(m.content)
                       IN  [i \in 1..Len(ts) |-> Part("text", Str(ts[i]))]
  IN  Flatten([i \in 1..Len(msgs) |-> OfMsg(msgs[i])])

\* C19: the parts of every session.message call are the texts of the user
\* messages of the caller's normalised request, in message order and part
\* order, and the loop of the streaming callback and the loop of the
\* non-streaming branch give the same parts for the same normalised request.
C19_PartsAreUserTexts ==
  /\ \A i \in 1..Len(messageCalls) :
       LET p == parsed[messageCalls[i].by]
       IN  messageCalls[i].parts = IF p.k = "obj" THEN UserTexts(p.messages) ELSE <<>>
  /\ \A r \in reqs : StreamMessageParts(parsed[r]) = MessageParts(parsed[r])

\* C19 witness: a streaming request of an assistant message, a user message
\* of two texts around an image, and a user string has sent three parts
C19_Witness ==
  /\ Len(messageCalls) = 1
  /\ messageCalls[1].stream
  /\ Len(parsed[1].messages) = 3
  /\ parsed[1].messages[1].role = "assistant"
  /\ parsed[1].messages[2].content.k = "arr"
  /\ Len(parsed[1].messages[2].content.parts) = 3
  /\ messageCalls[1].parts =
       <<Part("text", Str(<<"a">>)), Part("text", Str(<<"b">>)), Part("text", Str(<<"u">>))>>

\* C20: a request answered 401 by the middleware has no session, has made
\* no session.create and no session.message call, has no timer and no
\* frame, and provider.list has been called once for each /v1/models
\* request let through and never for a rejected one.
C20_RejectedHasNoEffect ==
  /\ \A r \in reqs :
       Rejected(r) =>
         /\ session[r] = 0
         /\ createCalls[r] = 0
         /\ CallsBy(r) = {}
         /\ \A i \in 1..Len(sessions) : sessions[i] # r
         /\ timer[r] = "none"
         /\ frames[r] = <<>> /\ pending[r] = <<>>
         /\ response[r].kind = "json"
  /\ listCalls = Cardinality({r \in reqs : request[r].path = "/v1/models" /\ pc[r] # "idle"
                                           /\ ~Rejected(r)})

\* C20 witness: a /v1/models request has been rejected
C20_Witness ==
  \E r \in reqs : Rejected(r) /\ request[r].path = "/v1/models" /\ ~Falsy(request[r].auth)

====
